---- MODULE Spec2Model ----
(***************************************************************************)
(* Model of the Blacklight queue orchestrator of the unified job scraper   *)
(* (server.js, common/utils.js): the auto-poll scheduler with its          *)
(* re-entrancy guard, the POST /scrape-queue handler and runBlacklightQueue.*)
(* Node.js runs one continuation at a time: every action below is what one *)
(* callback does between two awaits (a response arrives, the continuation  *)
(* runs until it has issued the next request).                             *)
(* Further specifications over the same variables model the retry loop of  *)
(* makeApiRequest (SpecApi), the processing of one platform by the         *)
(* credentialed scrapers with the credentials API client (SpecCred), two   *)
(* callers of the scrapers sharing that client (SpecShared), and one run   *)
(* of the orchestrator together with its scrapers (SpecRun).               *)
(***************************************************************************)
EXTENDS Integers, Sequences, FiniteSets, TLC

(* ---------------------------- bounds ----------------------------------- *)
\* POST /scrape-queue requests that can be open at the same time
MaxPostRequests == 1
\* longest platform list of a queue item
MaxPlatforms == 2
\* largest number of jobs one scrape returns
MaxJobs == 1

(* ------------------------- program constants --------------------------- *)
\* server.js:50-56, the keys of SCRAPERS
SCRAPERS == {"monster", "dice", "techfetch", "linkedin", "glassdoor"}
\* scrapers that start with apiClient.getCredential (linkedin.js, techfetch.js, glassdoor.js)
CredentialScrapers == {"techfetch", "linkedin", "glassdoor"}

\* platform names the backend puts in a queue item (README.md:487-494): one without
\* credentials, written with a capital, one with credentials, one without scraper
QueueNames == {"Dice", "linkedin", "indeed"}
\* String.prototype.toLowerCase on the names above (server.js:125)
toLowerCase(n) == CASE n = "Dice" -> "dice"
                    [] n = "LinkedIn" -> "linkedin"
                    [] OTHER -> n
LowerNames == {toLowerCase(n) : n \in QueueNames}

\* the platforms[] entries of a queue item
QueuePlatforms == {[name |-> n, requires_credential |-> (toLowerCase(n) \in CredentialScrapers)] : n \in QueueNames}
\* the platform lists of queue items: the backend lists a platform once per session
\* (README.md:487-494; a second submit for a platform is refused, README.md:673-679)
QueueItems == {item \in UNION {[1..k -> QueuePlatforms] : k \in 0..MaxPlatforms} :
                  \A i, j \in DOMAIN item : item[i].name = item[j].name => i = j}

\* Response.ok of fetch: status in 200..299
IsOk(st) == st >= 200 /\ st <= 299

\* Outcome of makeApiRequest seen by its caller: an HTTP status that is not
\* retried, or 0 when makeApiRequest throws (network error on the last
\* attempt, or 'Max retries exceeded').
CheckStatuses == {0, 200, 401}
NextStatuses == {0, 200, 204, 401, 409}
SubmitStatuses == {0, 202, 400}
CompleteStatuses == {0, 200, 400}

RunIds == 0..MaxPostRequests      \* 0: the run of autoCheckQueue; 1..: POST /scrape-queue handlers
PostIds == 1..MaxPostRequests

VARIABLES
    configured,         \* credentials.blacklight has apiUrl and apiKey
    serverState,        \* "init" (module loaded), "listening", "exited"
    isProcessingQueue,  \* server.js:488
    queueCheckInterval, \* server.js:489, TRUE when the interval timer is set
    startupTimer,       \* the 5 s setTimeout of startAutoQueueChecker is pending
    console,            \* what autoCheckQueue logged in the last step ("none": nothing)
    runs,               \* the locals of each runBlacklightQueue execution
    backendSession,     \* backend: the scraper has an active session
    ended,              \* the run that ended in the last step, with its locals
    api,                \* the locals and the observed history of one makeApiRequest call
    activeCredentials,  \* CredentialsAPIClient.activeCredentials: platform -> leased credential id
    scrape,             \* the locals of the scraper call made for one platform of a queue item
    hist,               \* what that scraper call did at the credential endpoints so far
    callers             \* the locals of the scraper calls of two concurrent callers

queueVars == <<configured, serverState, isProcessingQueue, queueCheckInterval,
               startupTimer, console, runs, backendSession, ended>>
apiVars == <<api>>
credVars == <<activeCredentials, scrape, hist, callers>>
vars == <<queueVars, apiVars, credVars>>

(* ------------------------------ run locals ----------------------------- *)
NoOutcome == [recorded |-> FALSE, success |-> FALSE, jobs_found |-> 0, error |-> "none"]

\* What the history keeps of an answer: its status when it is 2xx or 409, else 0
\* (makeApiRequest threw, or another non-OK status)
AnswerClass(st) == IF IsOk(st) \/ st = 409 THEN st ELSE 0

\* One entry of the observed history of a run: a request is sent or a scrape starts (ph "start"),
\* or it settles (ph "end") with what the environment answered: res and the status st
Ev(op, ph, i, name, res, st) == [op |-> op, ph |-> ph, i |-> i, name |-> name, res |-> res, st |-> st]

IdleRun == [pc |-> "idle", item |-> <<>>, idx |-> 0, log |-> <<>>,
            platforms |-> [n \in LowerNames |-> NoOutcome],
            successful |-> 0, failed |-> 0, jobs |-> 0, err |-> "none",
            completion |-> "none"]

\* runBlacklightQueue up to its first await: the current-session request is sent
NewRun == [IdleRun EXCEPT !.pc = "check",
                          !.log = <<Ev("current-session", "start", 0, "", "", 0)>>]

\* no run ended in the last step
NoEnded == [id |-> -1, kind |-> "none", status |-> 0, http |-> 0, rec |-> IdleRun]

(* ----------- the other components, idle while the orchestrator runs ------ *)
\* no makeApiRequest call has been made: attempt is the loop variable, delay the
\* pending wait, outcomes the answers of fetch so far (0: fetch threw), waits the
\* delays waited so far, result the returned status
ApiIdle == [pc |-> "idle", attempt |-> 0, delay |-> 0, outcomes |-> <<>>,
            waits |-> <<>>, result |-> 0, error |-> "none"]

\* an error message is the sequence of its words; no error
NoMessage == <<>>

\* new Map(): no platform has an entry (README.md:1265)
NoLeases == [p \in CredentialScrapers |-> 0]

\* no scraper is running
\* (authenticated: the site accepted the login of the current attempt)
IdleScrape == [pc |-> "idle", platform |-> "", requires_credential |-> FALSE,
               attemptCount |-> 0, credRetry |-> 0, delay |-> 0, loginSuccess |-> FALSE,
               authenticated |-> FALSE,
               error |-> NoMessage, lastError |-> NoMessage,
               result |-> "none", thrown |-> NoMessage]

\* nothing observed: endpoints are the credential endpoints called for the platform,
\* polls and pollWaits count the /next calls and the waits of the current acquisition,
\* attempts the scrape attempts of the platform, reported the cooldowns passed to
\* reportFailure in the current attempt, successes the reportSuccess calls made for
\* the platform, answer and fetches the last answer and the number of
\* fetch calls of the last client call
NoHist == [endpoints |-> {}, polls |-> 0, pollWaits |-> 0, acquisition |-> "none",
           attempts |-> 0, reported |-> <<>>, successes |-> 0, answer |-> -1, fetches |-> 0]

\* the two callers of a scraper function: the loop of runBlacklightQueue
\* (server.js:142) and the loop of scrapeJobs run by POST /scrape (server.js:250)
Callers == {"queue", "manual"}

\* no scraper call is running: credential is the local `credential` of the scraper,
\* accessed whether the call has read or written the map entry of its platform
IdleCaller == [pc |-> "idle", platform |-> "", attemptCount |-> 0,
               credential |-> 0, accessed |-> FALSE]
NoCallers == [c \in Callers |-> IdleCaller]

Init ==
    /\ api = ApiIdle
    /\ activeCredentials = NoLeases
    /\ scrape = IdleScrape
    /\ hist = NoHist
    /\ callers = NoCallers
    /\ configured \in BOOLEAN
    /\ serverState = "init"
    /\ isProcessingQueue = FALSE
    /\ queueCheckInterval = FALSE
    /\ startupTimer = FALSE
    /\ console = "none"
    /\ runs = [r \in RunIds |-> IdleRun]
    /\ backendSession \in BOOLEAN   \* a session of an earlier process may still be open
    /\ ended = NoEnded

(* ------------------- common/utils.js: the API helpers ------------------ *)
\* checkActiveSession (utils.js:269-283): the parsed body when response.ok, else it throws;
\* a status of 0 is makeApiRequest throwing
checkActiveSession(st, active) ==
    IF IsOk(st) THEN [threw |-> FALSE, has_active_session |-> active]
                ELSE [threw |-> TRUE, has_active_session |-> FALSE]

\* getNextRoleLocation with the 409 answer taken for an empty queue
getNextRoleLocation409AsNull(st) ==
    IF st = 0 THEN "throw"
    ELSE IF st = 204 \/ st = 409 THEN "null"
    ELSE IF IsOk(st) THEN "item"
    ELSE "throw"

\* getNextRoleLocation without the test for 204: the answer passes response.ok
getNextRoleLocationNo204(st) ==
    IF st = 0 THEN "throw"
    ELSE IF st = 409 THEN "throw"
    ELSE IF IsOk(st) THEN "item"
    ELSE "throw"

\* getNextRoleLocation (utils.js:285-307)
getNextRoleLocation(st) ==
    IF st = 0 THEN "throw"
    ELSE IF st = 204 THEN "null"
    ELSE IF st = 409 THEN "throw"
    ELSE IF IsOk(st) THEN "item"
    ELSE "throw"

\* submitJobs (utils.js:309-336)
submitJobs(st) == IF st # 0 /\ (st = 202 \/ IsOk(st)) THEN "ok" ELSE "throw"

\* completeSession (utils.js:338-354)
completeSession(st) == IF st # 0 /\ IsOk(st) THEN "ok" ELSE "throw"

(* ------------------ server.js: callers of runBlacklightQueue ----------- *)
\* POST /scrape-queue (server.js:407-440): the status of the response
HttpStatusOf(kind) ==
    CASE kind = "exception" -> 500
      [] kind = "error" -> 409
      [] OTHER -> 200

\* what autoCheckQueue logs after the run (server.js:510-519)
ConsoleOf(kind) ==
    CASE kind = "exception" -> "auto queue check error"
      [] kind = "error" -> "info: error"
      [] kind = "message" -> "info: message"
      [] OTHER -> "queue job completed"

\* the end of a run with the guard reset as last statement of the try block: a
\* run that throws leaves the guard set
EndRunNoFinally(r, kind, st, rec) ==
    /\ runs' = [runs EXCEPT ![r] = IdleRun]
    /\ ended' = [id |-> r, kind |-> kind, status |-> AnswerClass(st),
                 http |-> IF r = 0 THEN 0 ELSE HttpStatusOf(kind), rec |-> rec]
    /\ IF r = 0
       THEN /\ isProcessingQueue' = (kind = "exception")
            /\ console' = ConsoleOf(kind)
       ELSE /\ console' = "none"
            /\ UNCHANGED isProcessingQueue

\* Run r ends (returns a result of the given kind, or throws: kind "exception") and
\* the awaiting caller continues in the same turn: autoCheckQueue's
\* try/catch/finally (server.js:508-522) or the handler's response (server.js:411-439).
\* The locals of the run are gone afterwards.
EndRun(r, kind, st, rec) ==
    /\ runs' = [runs EXCEPT ![r] = IdleRun]
    /\ ended' = [id |-> r, kind |-> kind, status |-> AnswerClass(st),
                 http |-> IF r = 0 THEN 0 ELSE HttpStatusOf(kind), rec |-> rec]
    /\ IF r = 0
       THEN /\ isProcessingQueue' = FALSE
            /\ console' = ConsoleOf(kind)
       ELSE /\ console' = "none"
            /\ UNCHANGED isProcessingQueue

\* Run r goes on and awaits its next request
Continue(r, rec) ==
    /\ runs' = [runs EXCEPT ![r] = rec]
    /\ ended' = NoEnded
    /\ console' = "none"
    /\ UNCHANGED isProcessingQueue

(* ------------------------ server.js: the scheduler --------------------- *)
\* autoCheckQueue without the test of isProcessingQueue
autoCheckQueueNoGuard ==
    IF ~configured
    THEN /\ console' = "not configured"
         /\ ended' = NoEnded
         /\ UNCHANGED <<isProcessingQueue, runs>>
    ELSE /\ isProcessingQueue' = TRUE
         /\ console' = "auto-checking"
         /\ runs' = [runs EXCEPT ![0] = NewRun]
         /\ ended' = NoEnded

\* autoCheckQueue up to its first await (server.js:491-508)
autoCheckQueue ==
    IF isProcessingQueue
    THEN /\ console' = "skipping"
         /\ ended' = NoEnded
         /\ UNCHANGED <<isProcessingQueue, runs>>
    ELSE IF ~configured
    THEN /\ console' = "not configured"
         /\ ended' = NoEnded
         /\ UNCHANGED <<isProcessingQueue, runs>>
    ELSE /\ isProcessingQueue' = TRUE
         /\ console' = "auto-checking"
         /\ runs' = [runs EXCEPT ![0] = NewRun]
         /\ ended' = NoEnded

\* app.listen callback (server.js:552-574) with startAutoQueueChecker (server.js:525-541)
Listen ==
    /\ serverState = "init"
    /\ serverState' = "listening"
    /\ IF configured
       THEN startupTimer' = TRUE /\ queueCheckInterval' = TRUE
       ELSE UNCHANGED <<startupTimer, queueCheckInterval>>
    /\ ended' = NoEnded
    /\ console' = "none"
    /\ UNCHANGED <<apiVars, credVars, configured, isProcessingQueue, runs, backendSession>>

\* setTimeout(() => autoCheckQueue(), 5000) fires (server.js:537)
StartupTimeout ==
    /\ serverState = "listening"
    /\ startupTimer
    /\ startupTimer' = FALSE
    /\ autoCheckQueue
    /\ UNCHANGED <<apiVars, credVars, configured, serverState, queueCheckInterval, backendSession>>

\* setInterval(autoCheckQueue, 30000) fires (server.js:540)
IntervalTick ==
    /\ serverState = "listening"
    /\ queueCheckInterval
    /\ autoCheckQueue
    /\ UNCHANGED <<apiVars, credVars, configured, serverState, queueCheckInterval, startupTimer, backendSession>>

\* the signal handler without process.exit(0): stopAutoQueueChecker only, the
\* process goes on
ShutdownWithoutExit ==
    /\ serverState = "listening"
    /\ queueCheckInterval
    /\ queueCheckInterval' = FALSE
    /\ console' = "none"
    /\ ended' = NoEnded
    /\ UNCHANGED <<apiVars, credVars, configured, serverState, startupTimer, runs,
                   isProcessingQueue, backendSession>>

\* SIGINT / SIGTERM (server.js:577-587): stopAutoQueueChecker clears the interval
\* and nothing else (server.js:543-549), then process.exit(0): the process is gone
\* with the locals of its runs, and a startup timeout still pending never fires
Shutdown ==
    /\ serverState = "listening"
    /\ queueCheckInterval' = FALSE
    /\ serverState' = "exited"
    /\ runs' = [r \in RunIds |-> IdleRun]
    /\ isProcessingQueue' = FALSE
    /\ console' = "none"
    /\ ended' = NoEnded
    /\ UNCHANGED <<apiVars, credVars, configured, startupTimer, backendSession>>

\* POST /scrape-queue arrives (server.js:407-411); runBlacklightQueue throws at once
\* when the configuration is missing (server.js:63-67)
PostScrapeQueue(r) ==
    /\ serverState = "listening"
    /\ runs[r].pc = "idle"
    /\ IF configured
       THEN /\ runs' = [runs EXCEPT ![r] = NewRun]
            /\ ended' = NoEnded
            /\ console' = "none"
            /\ UNCHANGED isProcessingQueue
       ELSE EndRun(r, "exception", 0, IdleRun)
    /\ UNCHANGED <<apiVars, credVars, configured, serverState, queueCheckInterval, startupTimer, backendSession>>

(* --------------------- server.js: runBlacklightQueue ------------------- *)
Append2(log, a, b) == Append(Append(log, a), b)

\* The head of one iteration of `for (const platformInfo of platforms)`
\* (server.js:124-142) for list position i, or the step after the loop
\* (server.js:186-190), up to the next await.
BeginPlatform(rec, i) ==
    IF i > Len(rec.item)
    THEN [rec EXCEPT !.pc = "complete", !.idx = i,
                     !.log = Append(rec.log, Ev("complete", "start", 0, "", "", 0))]
    ELSE LET platformName == toLowerCase(rec.item[i].name) IN
         IF platformName \notin SCRAPERS
         THEN [rec EXCEPT !.pc = "submit_unsupported", !.idx = i,
                          !.log = Append(rec.log, Ev("submit", "start", i, platformName, "failed", 0))]
         ELSE IF platformName \in CredentialScrapers
         THEN [rec EXCEPT !.pc = "scrape", !.idx = i,
                          !.log = Append2(rec.log, Ev("scrape", "start", i, platformName, "", 0),
                                                   Ev("credential", "start", i, platformName, "", 0))]
         ELSE [rec EXCEPT !.pc = "scrape", !.idx = i,
                          !.log = Append(rec.log, Ev("scrape", "start", i, platformName, "", 0))]

\* results.platforms[platformName] = {...}; results.summary.successful++ (server.js:161-166)
RecordSuccess(rec, platformName) ==
    [rec EXCEPT !.platforms[platformName] =
                    [recorded |-> TRUE, success |-> TRUE, jobs_found |-> rec.jobs, error |-> "none"],
                !.successful = @ + 1]

\* a failure record that loses the message of the error
RecordFailureNoMessage(rec, platformName, error) ==
    [rec EXCEPT !.platforms[platformName] =
                    [recorded |-> TRUE, success |-> FALSE, jobs_found |-> 0, error |-> "none"],
                !.failed = @ + 1]

\* results.platforms[platformName] = {success: false, error}; results.summary.failed++
\* (server.js:131-132, 178-182)
RecordFailure(rec, platformName, error) ==
    [rec EXCEPT !.platforms[platformName] =
                    [recorded |-> TRUE, success |-> FALSE, jobs_found |-> 0, error |-> error],
                !.failed = @ + 1]

\* the current-session continuation without the return on has_active_session
CheckActiveSessionRespondsNoReturn(r) ==
    /\ serverState = "listening"
    /\ runs[r].pc = "check"
    /\ \E st \in CheckStatuses :
         LET sessionCheck == checkActiveSession(st, backendSession)
             answer == IF ~IsOk(st) THEN "fail" ELSE IF backendSession THEN "active" ELSE "none"
             rec == runs[r] IN
         IF sessionCheck.threw
         THEN EndRun(r, "exception", st,
                     [rec EXCEPT !.log = Append(@, Ev("current-session", "end", 0, "", answer, AnswerClass(st)))])
         ELSE Continue(r, [rec EXCEPT !.pc = "fetch",
                                      !.log = Append2(@, Ev("current-session", "end", 0, "", answer, AnswerClass(st)),
                                                         Ev("next-role-location", "start", 0, "", "", 0))])
    /\ UNCHANGED <<apiVars, credVars, configured, serverState, queueCheckInterval, startupTimer, backendSession>>

\* the current-session response arrives (server.js:77-92)
CheckActiveSessionResponds(r) ==
    /\ serverState = "listening"
    /\ runs[r].pc = "check"
    /\ \E st \in CheckStatuses :
         LET sessionCheck == checkActiveSession(st, backendSession)
             answer == IF ~IsOk(st) THEN "fail" ELSE IF backendSession THEN "active" ELSE "none"
             rec == runs[r] IN
         IF sessionCheck.threw
         THEN EndRun(r, "exception", st,
                     [rec EXCEPT !.log = Append(@, Ev("current-session", "end", 0, "", answer, AnswerClass(st)))])
         ELSE IF sessionCheck.has_active_session
         THEN EndRun(r, "error", st,
                     [rec EXCEPT !.log = Append(@, Ev("current-session", "end", 0, "", answer, AnswerClass(st)))])
         ELSE Continue(r, [rec EXCEPT !.pc = "fetch",
                                      !.log = Append2(@, Ev("current-session", "end", 0, "", answer, AnswerClass(st)),
                                                         Ev("next-role-location", "start", 0, "", "", 0))])
    /\ UNCHANGED <<apiVars, credVars, configured, serverState, queueCheckInterval, startupTimer, backendSession>>

\* the next-role-location response arrives (server.js:92-142). The backend answers
\* 200 with a queue item and opens a session only when the scraper has none, 204 when
\* its queue is empty, 409 when the scraper has an active session (README.md:462, 501).
GetNextRoleLocationRespondsWith(r, items) ==
    /\ serverState = "listening"
    /\ runs[r].pc = "fetch"
    /\ \E st \in NextStatuses :
         /\ st \in {200, 204} => ~backendSession
         /\ st = 409 => backendSession
         /\ LET queueItem == getNextRoleLocation(st)
                rec == runs[r] IN
            IF queueItem = "throw"
            THEN /\ EndRun(r, "exception", st,
                           [rec EXCEPT !.log = Append(@, Ev("next-role-location", "end", 0, "", "", AnswerClass(st)))])
                 /\ UNCHANGED backendSession
            ELSE IF queueItem = "null"
            THEN /\ EndRun(r, "message", st,
                           [rec EXCEPT !.log = Append(@, Ev("next-role-location", "end", 0, "", "", AnswerClass(st)))])
                 /\ UNCHANGED backendSession
            ELSE /\ \E platforms \in items :
                      Continue(r, BeginPlatform(
                          [rec EXCEPT !.item = platforms,
                                      !.log = Append(@, Ev("next-role-location", "end", 0, "", "", AnswerClass(st)))], 1))
                 /\ backendSession' = TRUE
    /\ UNCHANGED <<apiVars, credVars, configured, serverState, queueCheckInterval, startupTimer>>

\* the same with the queue items of the backend
GetNextRoleLocationResponds(r) == GetNextRoleLocationRespondsWith(r, QueueItems)

\* the scrape continuation with the success submit sent but not awaited: the loop
\* goes on to the next platform at once
ScrapeFinishesNoAwait(r) ==
    /\ serverState = "listening"
    /\ runs[r].pc = "scrape"
    /\ LET rec == runs[r]
           i == rec.idx
           platformName == toLowerCase(rec.item[i].name) IN
       \/ \E n \in 0..MaxJobs :
            Continue(r, BeginPlatform(
                RecordSuccess([rec EXCEPT !.jobs = n,
                                          !.log = Append2(@, Ev("scrape", "end", i, platformName, "ok", 0),
                                                             Ev("submit", "start", i, platformName, "success", 0))],
                              platformName), i + 1))
       \/ Continue(r, [rec EXCEPT !.pc = "submit_failed", !.err = "scrape",
                                  !.log = Append2(@, Ev("scrape", "end", i, platformName, "throw", 0),
                                                     Ev("submit", "start", i, platformName, "failed", 0))])
    /\ UNCHANGED <<apiVars, credVars, configured, serverState, queueCheckInterval, startupTimer, backendSession>>

\* the scraper of the current platform settles (server.js:142-156, 168-173)
ScrapeFinishes(r) ==
    /\ serverState = "listening"
    /\ runs[r].pc = "scrape"
    /\ LET rec == runs[r]
           i == rec.idx
           platformName == toLowerCase(rec.item[i].name) IN
       \/ \E n \in 0..MaxJobs :
            Continue(r, [rec EXCEPT !.pc = "submit_success", !.jobs = n,
                                    !.log = Append2(@, Ev("scrape", "end", i, platformName, "ok", 0),
                                                       Ev("submit", "start", i, platformName, "success", 0))])
       \/ Continue(r, [rec EXCEPT !.pc = "submit_failed", !.err = "scrape",
                                  !.log = Append2(@, Ev("scrape", "end", i, platformName, "throw", 0),
                                                     Ev("submit", "start", i, platformName, "failed", 0))])
    /\ UNCHANGED <<apiVars, credVars, configured, serverState, queueCheckInterval, startupTimer, backendSession>>

\* the success submit with its answer ignored: the platform is recorded successful
\* whatever the backend said
SubmitSuccessRespondsIgnored(r) ==
    /\ serverState = "listening"
    /\ runs[r].pc = "submit_success"
    /\ \E st \in SubmitStatuses :
         LET rec == runs[r]
             i == rec.idx
             platformName == toLowerCase(rec.item[i].name) IN
         Continue(r, BeginPlatform(
             RecordSuccess([rec EXCEPT !.log = Append(@, Ev("submit", "end", i, platformName, "", AnswerClass(st)))],
                           platformName), i + 1))
    /\ UNCHANGED <<apiVars, credVars, configured, serverState, queueCheckInterval, startupTimer, backendSession>>

\* the response to submitJobs(..., 'success') arrives (server.js:156-173)
SubmitSuccessResponds(r) ==
    /\ serverState = "listening"
    /\ runs[r].pc = "submit_success"
    /\ \E st \in SubmitStatuses :
         LET rec == runs[r]
             i == rec.idx
             platformName == toLowerCase(rec.item[i].name) IN
         IF submitJobs(st) = "ok"
         THEN Continue(r, BeginPlatform(
                  RecordSuccess([rec EXCEPT !.log = Append(@, Ev("submit", "end", i, platformName, "", AnswerClass(st)))],
                                platformName), i + 1))
         ELSE Continue(r, [rec EXCEPT !.pc = "submit_failed", !.err = "submit",
                                      !.log = Append2(@, Ev("submit", "end", i, platformName, "", AnswerClass(st)),
                                                         Ev("submit", "start", i, platformName, "failed", 0))])
    /\ UNCHANGED <<apiVars, credVars, configured, serverState, queueCheckInterval, startupTimer, backendSession>>

\* the failed-platform submit without its inner try/catch: a throw leaves the run
SubmitFailedRespondsRethrow(r) ==
    /\ serverState = "listening"
    /\ runs[r].pc = "submit_failed"
    /\ \E st \in SubmitStatuses :
         LET rec == runs[r]
             i == rec.idx
             platformName == toLowerCase(rec.item[i].name) IN
         IF submitJobs(st) = "ok"
         THEN Continue(r, BeginPlatform(
                  RecordFailure([rec EXCEPT !.log = Append(@, Ev("submit", "end", i, platformName, "", AnswerClass(st))),
                                            !.jobs = 0, !.err = "none"],
                                platformName, rec.err), i + 1))
         ELSE EndRun(r, "exception", st,
                     [rec EXCEPT !.log = Append(@, Ev("submit", "end", i, platformName, "", AnswerClass(st)))])
    /\ UNCHANGED <<apiVars, credVars, configured, serverState, queueCheckInterval, startupTimer, backendSession>>

\* the response to submitJobs(..., 'failed', error.message) of the catch block
\* arrives (server.js:172-184): a throw is caught by the inner try
SubmitFailedResponds(r) ==
    /\ serverState = "listening"
    /\ runs[r].pc = "submit_failed"
    /\ \E st \in SubmitStatuses :
         LET rec == runs[r]
             i == rec.idx
             platformName == toLowerCase(rec.item[i].name) IN
         Continue(r, BeginPlatform(
             RecordFailure([rec EXCEPT !.log = Append(@, Ev("submit", "end", i, platformName, "", AnswerClass(st))),
                                       !.jobs = 0, !.err = "none"],
                           platformName, rec.err), i + 1))
    /\ UNCHANGED <<apiVars, credVars, configured, serverState, queueCheckInterval, startupTimer, backendSession>>

\* the response to the submitJobs of an unknown platform arrives (server.js:128-134):
\* this call is outside every try block
SubmitUnsupportedResponds(r) ==
    /\ serverState = "listening"
    /\ runs[r].pc = "submit_unsupported"
    /\ \E st \in SubmitStatuses :
         LET rec == runs[r]
             i == rec.idx
             platformName == toLowerCase(rec.item[i].name) IN
         IF submitJobs(st) = "ok"
         THEN Continue(r, BeginPlatform(
                  RecordFailure([rec EXCEPT !.log = Append(@, Ev("submit", "end", i, platformName, "", AnswerClass(st)))],
                                platformName, "Platform not supported"), i + 1))
         ELSE EndRun(r, "exception", st,
                     [rec EXCEPT !.log = Append(@, Ev("submit", "end", i, platformName, "", AnswerClass(st)))])
    /\ UNCHANGED <<apiVars, credVars, configured, serverState, queueCheckInterval, startupTimer, backendSession>>

\* the completion step without its try/catch: a failed complete call leaves the run
\* as an exception
CompleteRespondsThrow(r) ==
    /\ serverState = "listening"
    /\ runs[r].pc = "complete"
    /\ \E st \in CompleteStatuses :
         LET rec == [runs[r] EXCEPT !.log = Append(@, Ev("complete", "end", 0, "", "", AnswerClass(st)))] IN
         /\ IF completeSession(st) = "ok"
            THEN EndRun(r, "session", st, [rec EXCEPT !.completion = "completion"])
            ELSE EndRun(r, "exception", st, rec)
         /\ backendSession' = IF st = 200 THEN FALSE ELSE backendSession
    /\ UNCHANGED <<apiVars, credVars, configured, serverState, queueCheckInterval, startupTimer>>

\* the complete response arrives (server.js:189-213); the backend closes the session on 200
CompleteResponds(r) ==
    /\ serverState = "listening"
    /\ runs[r].pc = "complete"
    /\ \E st \in CompleteStatuses :
         LET rec == runs[r] IN
         /\ EndRun(r, "session", st,
                   [rec EXCEPT !.completion = IF completeSession(st) = "ok" THEN "completion" ELSE "completion_error",
                               !.log = Append(@, Ev("complete", "end", 0, "", "", AnswerClass(st)))])
         /\ backendSession' = IF st = 200 THEN FALSE ELSE backendSession
    /\ UNCHANGED <<apiVars, credVars, configured, serverState, queueCheckInterval, startupTimer>>

RunStep(r) ==
    \/ CheckActiveSessionResponds(r)
    \/ GetNextRoleLocationResponds(r)
    \/ ScrapeFinishes(r)
    \/ SubmitSuccessResponds(r)
    \/ SubmitFailedResponds(r)
    \/ SubmitUnsupportedResponds(r)
    \/ CompleteResponds(r)

Next ==
    \/ Listen
    \/ StartupTimeout
    \/ IntervalTick
    \/ Shutdown
    \/ \E r \in PostIds : PostScrapeQueue(r)
    \/ \E r \in RunIds : RunStep(r)

Spec == Init /\ [][Next]_vars

(* ============================== properties ============================= *)
\* runs whose locals exist: the ones in flight and the one that ended in the last step
InFlight == {r \in RunIds : runs[r].pc # "idle"}
HasEnded == ended.id # -1

\* positions of the history of rec at which a request of kind op was sent
Calls(rec, op) == {p \in DOMAIN rec.log : rec.log[p].op = op /\ rec.log[p].ph = "start"}
BackendOps == {"current-session", "next-role-location", "credential", "submit", "complete"}
BackendCalls(rec) == {p \in DOMAIN rec.log : rec.log[p].op \in BackendOps /\ rec.log[p].ph = "start"}
\* positions at which the answer to a request of kind op arrived
Answers(rec, op) == {p \in DOMAIN rec.log : rec.log[p].op = op /\ rec.log[p].ph = "end"}

\* the run got a queue item: next-role-location answered 200
Fetched(rec) == \E p \in Answers(rec, "next-role-location") : rec.log[p].st = 200
\* list positions whose scrape threw
ScrapeFailedAt(rec) == {rec.log[p].i : p \in {q \in Answers(rec, "scrape") : rec.log[q].res = "throw"}}
\* the processing of list position j began: its scraper was called or, for an
\* unknown platform, its failure was submitted
Attempted(rec, j) == \E p \in DOMAIN rec.log :
    rec.log[p].ph = "start" /\ rec.log[p].i = j /\ rec.log[p].op \in {"scrape", "submit"}
CompleteCalled(rec) == Calls(rec, "complete") # {}

\* C1: at every moment at most one execution of runBlacklightQueue is in flight,
\* whatever the interleaving of the scheduler's triggers and POST /scrape-queue requests
C1_AtMostOneRunInFlight == Cardinality(InFlight) <= 1

\* C2: an autoCheckQueue trigger (startup timeout or interval) that fires while
\* isProcessingQueue is true changes neither the guard nor any run and sends no
\* request, and it is not replayed later: the auto run only ever starts within a trigger
\* step taken while the guard is clear
C2_SkippedTriggerIsNoOp ==
    [][ /\ (isProcessingQueue /\ (StartupTimeout \/ IntervalTick))
            => UNCHANGED <<isProcessingQueue, runs, backendSession>>
        /\ (runs[0].pc = "idle" /\ runs'[0].pc # "idle")
            => (~isProcessingQueue /\ (StartupTimeout \/ IntervalTick)) ]_vars

\* a trigger has just been skipped while the auto run is in flight
C2_Witness == console = "skipping" /\ isProcessingQueue /\ runs[0].pc \notin {"idle", "check"}

\* C3: once the scrape of list position i has thrown, the run goes on to the next
\* position (or to the complete call after the last one) as soon as the failure is
\* handled: it is never the end of the run, and a run that returns its session result
\* after a scrape failure has attempted every platform and called complete
ScrapeFailureContained(rec, inflight) ==
    \A i \in ScrapeFailedAt(rec) :
        \/ inflight /\ rec.pc = "submit_failed" /\ rec.idx = i
        \/ IF i < Len(rec.item) THEN Attempted(rec, i + 1) ELSE CompleteCalled(rec)
C3_ScrapeFailureNeverStopsTheRun ==
    /\ \A r \in RunIds : ScrapeFailureContained(runs[r], TRUE)
    /\ ScrapeFailureContained(ended.rec, FALSE)
    /\ (ended.kind = "session" /\ ScrapeFailedAt(ended.rec) # {})
           => /\ \A j \in 1..Len(ended.rec.item) : Attempted(ended.rec, j)
              /\ CompleteCalled(ended.rec)

\* a run returned its session result after the scrape of a platform that is not the last one threw
C3_Witness ==
    /\ ended.kind = "session"
    /\ \E i \in ScrapeFailedAt(ended.rec) : i < Len(ended.rec.item) /\ Attempted(ended.rec, i + 1)
    /\ CompleteCalled(ended.rec)

\* C4: every run that fetched a queue item calls complete exactly once, after every
\* platform of the item has been processed (its submit was answered)
C4_CompleteExactlyOnce ==
    (HasEnded /\ Fetched(ended.rec)) =>
        /\ Cardinality(Calls(ended.rec, "complete")) = 1
        /\ \A j \in 1..Len(ended.rec.item) :
              \E p \in Answers(ended.rec, "submit") :
                  /\ ended.rec.log[p].i = j
                  /\ \A c \in Calls(ended.rec, "complete") : p < c

\* C5: a submitJobs call that fails never ends the run: no run ends with the
\* exception of a submit, whichever of the three submits it is
C5_SubmitFailureNeverAborts ==
    ~(ended.kind = "exception" /\ ended.rec.pc \in {"submit_success", "submit_failed", "submit_unsupported"})

ThrowCase(rec, st) ==
    \/ rec.pc = "idle" /\ ~configured
    \/ rec.pc = "check" /\ ~IsOk(st)
    \/ rec.pc = "fetch" /\ (st = 409 \/ ~IsOk(st))
    \/ rec.pc = "submit_unsupported" /\ ~IsOk(st)

C7_Conflict409IsErrorResult ==
    (HasEnded /\ \E p \in Answers(ended.rec, "next-role-location") : ended.rec.log[p].st = 409) =>
        /\ ended.kind = "error"
        /\ Calls(ended.rec, "submit") = {} /\ Calls(ended.rec, "complete") = {}

\* current-session answered has_active_session = true
SawActiveSession(rec) == \E p \in Answers(rec, "current-session") : rec.log[p].res = "active"

\* C8: when current-session reports an active session the run ends at once with
\* {error} and has sent no request but current-session
C8_ActiveSessionStopsTheRun ==
    /\ \A r \in RunIds : ~SawActiveSession(runs[r])
    /\ SawActiveSession(ended.rec) =>
          /\ ended.kind = "error"
          /\ Cardinality(BackendCalls(ended.rec)) = 1
          /\ Calls(ended.rec, "current-session") = BackendCalls(ended.rec)
          /\ Calls(ended.rec, "scrape") = {}

C8_Witness == SawActiveSession(ended.rec) /\ ended.kind = "error"

\* next-role-location answered 204
SawEmptyQueue(rec) == \E p \in Answers(rec, "next-role-location") : rec.log[p].st = 204

\* C9: when next-role-location answers 204 the run ends at once with {message}
\* and has sent no request after next-role-location
C9_EmptyQueueStopsTheRun ==
    /\ \A r \in RunIds : ~SawEmptyQueue(runs[r])
    /\ SawEmptyQueue(ended.rec) =>
          /\ ended.kind = "message"
          /\ Cardinality(BackendCalls(ended.rec)) = 2
          /\ BackendCalls(ended.rec) = Calls(ended.rec, "current-session") \cup Calls(ended.rec, "next-role-location")
          /\ Calls(ended.rec, "scrape") = {}
          /\ ended.rec.log[Len(ended.rec.log)].op = "next-role-location"

C9_Witness == SawEmptyQueue(ended.rec) /\ ended.kind = "message" /\ ended.http = 200

\* C10: within a run the platforms are scraped in list order, one at a time: when the
\* scrape of list position j starts it is the scraper of the j-th platform of the
\* item, every scrape and submit started before has been answered, every earlier
\* position has had its submit answered, and no later position has been touched
Sequential(rec) ==
    \A p \in Calls(rec, "scrape") :
        LET e == rec.log[p] IN
        /\ e.i \in 1..Len(rec.item)
        /\ e.name = toLowerCase(rec.item[e.i].name)
        /\ \A q \in 1..(p - 1) :
              /\ rec.log[q].i < e.i
              /\ (rec.log[q].ph = "start" /\ rec.log[q].op \in {"scrape", "submit"}) =>
                    \E q2 \in (q + 1)..(p - 1) :
                        /\ rec.log[q2].ph = "end" /\ rec.log[q2].op = rec.log[q].op
                        /\ rec.log[q2].i = rec.log[q].i
        /\ \A k \in 1..(e.i - 1) :
              \E q \in 1..(p - 1) :
                  rec.log[q].ph = "end" /\ rec.log[q].op = "submit" /\ rec.log[q].i = k
C10_PlatformsInListOrder ==
    /\ \A r \in RunIds : Sequential(runs[r])
    /\ Sequential(ended.rec)

\* a run scraped linkedin first and Dice second, as its item lists them
C10_Witness ==
    /\ ended.kind = "session"
    /\ Len(ended.rec.item) = 2
    /\ ended.rec.item[1].name = "linkedin" /\ ended.rec.item[2].name = "Dice"
    /\ \E p, q \in Calls(ended.rec, "scrape") :
          p < q /\ ended.rec.log[p].name = "linkedin" /\ ended.rec.log[q].name = "dice"

(* ================ common/utils.js: makeApiRequest, the retry loop ====== *)
\* utils.js:213
RETRY_DELAYS == <<1000, 2000, 5000, 10000, 30000>>
\* the default of the parameter retries (utils.js:215); no caller passes another value
retries == 5
\* what one fetch can give: an HTTP status, or 0 when fetch throws (DNS, reset, timeout)
ApiOutcomes == {0, 200, 204, 400, 404, 409, 429, 500, 503}

\* a delay that doubles with every attempt
RetryDelayExponential(attempt) == 1000 * (2 ^ attempt)

\* RETRY_DELAYS[attempt] || 30000 (utils.js:228, 236, 256); attempt counts from 0
RetryDelay(attempt) ==
    IF attempt + 1 \in DOMAIN RETRY_DELAYS THEN RETRY_DELAYS[attempt + 1] ELSE 30000

\* await wait(delay) is entered after the given outcome of fetch
StartWait(a, outcome) ==
    [a EXCEPT !.pc = "wait", !.delay = RetryDelay(a.attempt), !.outcomes = Append(@, outcome)]

\* the status tests with every status from 400 on taken for a retry
OnResponseRetry4xx(a, status) ==
    IF status >= 400 THEN StartWait(a, status)
    ELSE [a EXCEPT !.pc = "returned", !.result = status, !.outcomes = Append(@, status)]

\* fetch resolved with a response (utils.js:224-243)
OnResponse(a, status) ==
    IF status = 429 THEN StartWait(a, status)
    ELSE IF status >= 500 THEN StartWait(a, status)
    ELSE [a EXCEPT !.pc = "returned", !.result = status, !.outcomes = Append(@, status)]

\* fetch threw (utils.js:245-264)
OnException(a) ==
    IF a.attempt = retries - 1
    THEN [a EXCEPT !.pc = "threw", !.error = "network", !.outcomes = Append(@, 0)]
    ELSE StartWait(a, 0)

\* the loop test lets one attempt too many through
AfterWaitOffByOne(a) ==
    LET b == [a EXCEPT !.attempt = @ + 1, !.delay = 0, !.waits = Append(@, a.delay)] IN
    IF b.attempt <= retries THEN [b EXCEPT !.pc = "fetch"]
    ELSE [b EXCEPT !.pc = "threw", !.error = "Max retries exceeded"]

\* the wait is over: continue / attempt++ and the loop test; after the loop
\* throw new Error('Max retries exceeded') (utils.js:217, 266)
AfterWait(a) ==
    LET b == [a EXCEPT !.attempt = @ + 1, !.delay = 0, !.waits = Append(@, a.delay)] IN
    IF b.attempt < retries THEN [b EXCEPT !.pc = "fetch"]
    ELSE [b EXCEPT !.pc = "threw", !.error = "Max retries exceeded"]

\* a caller calls makeApiRequest: the first fetch is sent (utils.js:215-224)
MakeApiRequest ==
    /\ api.pc \in {"idle", "returned", "threw"}
    /\ api' = [ApiIdle EXCEPT !.pc = IF 0 < retries THEN "fetch" ELSE "threw"]
    /\ UNCHANGED <<queueVars, credVars>>

\* the response of the pending fetch arrives
FetchResponds ==
    /\ api.pc = "fetch"
    /\ \E status \in ApiOutcomes \ {0} : api' = OnResponse(api, status)
    /\ UNCHANGED <<queueVars, credVars>>

\* the pending fetch fails at network level
FetchThrows ==
    /\ api.pc = "fetch"
    /\ api' = OnException(api)
    /\ UNCHANGED <<queueVars, credVars>>

\* the timer of wait(delay) fires (utils.js:208-210)
WaitElapses ==
    /\ api.pc = "wait"
    /\ api' = AfterWait(api)
    /\ UNCHANGED <<queueVars, credVars>>

\* makeApiRequest on its own: the orchestrator and the scrapers stay idle
InitApi ==
    /\ api = ApiIdle
    /\ activeCredentials = NoLeases
    /\ scrape = IdleScrape
    /\ hist = NoHist
    /\ callers = NoCallers
    /\ configured = TRUE
    /\ serverState = "init"
    /\ isProcessingQueue = FALSE
    /\ queueCheckInterval = FALSE
    /\ startupTimer = FALSE
    /\ console = "none"
    /\ runs = [r \in RunIds |-> IdleRun]
    /\ backendSession = FALSE
    /\ ended = NoEnded

NextApi ==
    \/ MakeApiRequest
    \/ FetchResponds
    \/ FetchThrows
    \/ WaitElapses

SpecApi == InitApi /\ [][NextApi]_vars

(* ------------------------ properties of makeApiRequest ----------------- *)
\* every outcome of o is a retried status
RetriedStatuses(o) == \A i \in DOMAIN o : o[i] = 429 \/ o[i] >= 500
\* a status that is not retried
NotRetried(st) == st # 0 /\ st # 429 /\ st < 500
\* every fetch of the call had the outcome v
AllOutcomes(o, v) == o # <<>> /\ \A i \in DOMAIN o : o[i] = v

\* C14: when the first k attempts (0 <= k <= 4) answer 429 or >= 500 and attempt k+1
\* answers another status, the call returns that response after having waited exactly
\* the first k delays of [1000, 2000, 5000, 10000, 30000]; after five such answers in a
\* row the call can only end with the terminal error, and there is never a sixth attempt.
C14_FixedDelaySchedule ==
    /\ Len(api.outcomes) <= 5
    /\ \A k \in 0..4 :
         (/\ api.pc = "returned"
          /\ Len(api.outcomes) = k + 1
          /\ RetriedStatuses(SubSeq(api.outcomes, 1, k)))
         => /\ api.result = api.outcomes[k + 1]
            /\ api.waits = SubSeq(<<1000, 2000, 5000, 10000, 30000>>, 1, k)
    /\ (Len(api.outcomes) = 5 /\ RetriedStatuses(api.outcomes))
         => /\ api.pc \in {"wait", "threw"}
            /\ api.pc = "threw" => api.error = "Max retries exceeded"

\* four 500 answers followed by a 200: the call has returned
C14_Witness ==
    /\ api.pc = "returned"
    /\ api.outcomes = <<500, 500, 500, 500, 200>>
    /\ api.waits = <<1000, 2000, 5000, 10000>>

\* the call run to its end when every fetch has the same outcome
RECURSIVE RunWith(_, _)
RunWith(a, outcome) ==
    IF a.pc \in {"returned", "threw"} THEN a
    ELSE IF a.pc = "wait" THEN RunWith(AfterWait(a), outcome)
    ELSE IF outcome = 0 THEN RunWith(OnException(a), outcome)
    ELSE RunWith(OnResponse(a, outcome), outcome)

\* C15: a call whose every attempt fails at network level makes the same number of
\* attempts (5) and waits the same sequence of delays before its terminal error as a
\* call whose every attempt answers 500.
C15_NetworkErrorsRetryLike500 ==
    (api.pc = "threw" /\ AllOutcomes(api.outcomes, 0))
    => LET all500 == RunWith([ApiIdle EXCEPT !.pc = "fetch"], 500) IN
       /\ Len(api.outcomes) = 5
       /\ Len(all500.outcomes) = 5
       /\ api.waits = all500.waits

\* C16: a response whose status is neither 429 nor >= 500 ends the call: it is the
\* last outcome, it is what the call returns, and no delay is waited after it.
C16_OtherStatusReturnedAtOnce ==
    \A i \in DOMAIN api.outcomes :
        NotRetried(api.outcomes[i])
        => /\ i = Len(api.outcomes)
           /\ api.pc = "returned"
           /\ api.result = api.outcomes[i]
           /\ api.delay = 0
           /\ Len(api.waits) = i - 1

\* a 409 after one retried answer has been returned
C16_Witness ==
    /\ api.pc = "returned"
    /\ api.outcomes = <<500, 409>>
    /\ api.result = 409
    /\ api.waits = <<1000>>

(* ===== one platform of a queue item: server.js dispatch, the credentials ==== *)
(* ===== API client (common/credentialsAPI.js) and the credentialed scrapers == *)
\* largest credential id the backend hands out
MaxCredentials == 2
CredentialIds == 1..MaxCredentials

\* the platforms[] entries the backend can send for the five scrapers: the flag is
\* the backend's, the client never reads it (server.js:124-142)
PlatformInfos == [name : SCRAPERS, requires_credential : BOOLEAN]

\* linkedin.js:787 (part_000:787), techfetch.js:531
maxAttempts == 3
\* part_000:799, techfetch.js:543
maxCredentialRetries == 10
\* part_000:800, techfetch.js:544
credentialRetryDelay == 60000
\* scrapeLinkedIn and scrapeTechFetch wrap the scrape in `while (attemptCount < maxAttempts)`
\* and the acquisition in `for (credRetry < maxCredentialRetries)`; scrapeGlassdoor
\* (part_000:1486-1614) has neither loop
HasCredentialLoop(p) == p \in {"linkedin", "techfetch"}

\* what fetch gives at GET .../next: 0 when it throws, else the status
CredentialNextOutcomes == {0, 200, 204, 401, 429, 500}
\* what fetch gives at POST .../success and .../failure
CredentialReportOutcomes == {0, 200, 404, 500}

\* error messages a scrape attempt can fail with, word by word
Messages == {<<"Login", "failed", ":", "wrong", "password">>,
             <<"rate", "limit", "reached">>,
             <<"security", "challenge", "shown">>,
             <<"request", "blocked">>,
             <<"auth", "cookie", "rejected">>,
             <<"Timeout", "exceeded">>}
\* the errors thrown around the attempt
NoCredentialsError == <<"No", "credentials", "available", "from", "API">>
ApiError == <<"API", "Error">>
NetworkError == <<"fetch", "failed">>

\* String.prototype.includes, on words
includes(s, needle) ==
    \E i \in 1..(Len(s) - Len(needle) + 1) : SubSeq(s, i, i + Len(needle) - 1) = needle

\* a catch block that does not look at the message: every failure cools down 30 minutes
CooldownUnclassified(p, message, loginSuccess) == 30

\* the cooldownMinutes passed to reportFailure by the catch block of each scraper
\* (part_000:979-1002, techfetch.js:626-650, part_000:1601-1609)
Cooldown(p, message, loginSuccess) ==
    CASE p = "linkedin" ->
           IF loginSuccess THEN 30
           ELSE IF \/ includes(message, <<"Login", "failed">>)
                   \/ includes(message, <<"credentials">>)
                   \/ includes(message, <<"waitForSelector">>) THEN 0
           ELSE IF includes(message, <<"rate", "limit">>) \/ includes(message, <<"challenge">>) THEN 60
           ELSE 0
      [] p = "techfetch" ->
           IF loginSuccess THEN 30
           ELSE IF includes(message, <<"Login">>) \/ includes(message, <<"credentials">>) THEN 0
           ELSE IF includes(message, <<"rate", "limit">>) THEN 60
           ELSE 0
      [] OTHER ->
           IF \/ includes(message, <<"cookie">>)
              \/ includes(message, <<"login">>)
              \/ includes(message, <<"auth">>) THEN 0
           ELSE IF includes(message, <<"rate", "limit">>) \/ includes(message, <<"blocked">>) THEN 60
           ELSE 30

\* where a scrape attempt of p can throw: "setup" before the try block (part_000:1497-1527),
\* "login" inside it while the site has not accepted the login, "extract" after the
\* login passed but before the scraper sets loginSuccess = true (search and extraction:
\* part_000:861-964 after loginToLinkedIn, techfetch.js:445-583 inside scrapeJobs),
\* "after" once loginSuccess is set (techfetch.js:586-612, part_000:1548-1588; in
\* scrapeLinkedIn only reportSuccess follows)
FailurePhases(p) ==
    CASE p = "linkedin" -> {"login", "extract"}
      [] p = "techfetch" -> {"login", "extract", "after"}
      [] p = "glassdoor" -> {"setup", "login", "after"}
      [] OTHER -> {"login"}

\* getCredential after its fetch settled (README.md:1290-1318): the result and the map
getCredential(leases, p, st, id) ==
    IF st = 0 THEN [result |-> "throw", error |-> NetworkError, leases |-> leases]
    ELSE IF st = 204 THEN [result |-> "null", error |-> NoMessage, leases |-> leases]
    ELSE IF ~IsOk(st) THEN [result |-> "throw", error |-> ApiError, leases |-> leases]
    ELSE [result |-> "credential", error |-> NoMessage, leases |-> [leases EXCEPT ![p] = id]]

\* reportSuccess after its fetch settled (README.md:1349-1364): the map
reportSuccess(leases, p, st) ==
    IF st # 0 /\ IsOk(st) THEN [leases EXCEPT ![p] = 0] ELSE leases

\* reportFailure after its fetch settled (README.md:1402-1418): the map
reportFailure(leases, p, st) ==
    IF st # 0 /\ IsOk(st) THEN [leases EXCEPT ![p] = 0] ELSE leases

\* the scraper call settles: it returns the jobs or throws to server.js (server.js:142, 168)
EndScrape(s, result, thrown) ==
    scrape' = [s EXCEPT !.pc = "ended", !.result = result, !.thrown = thrown, !.delay = 0]

\* the head of one pass of the attempt loop up to its first await (part_000:792-803,
\* techfetch.js:536-547; part_000:1490-1491 runs once): attemptCount++, credRetry = 0,
\* getCredential sends its fetch
BeginAttempt(s, h) ==
    /\ scrape' = [s EXCEPT !.pc = "getCredential", !.attemptCount = @ + 1, !.credRetry = 0,
                           !.loginSuccess = FALSE, !.authenticated = FALSE, !.error = NoMessage]
    /\ hist' = [h EXCEPT !.endpoints = @ \cup {"next"}, !.polls = 1, !.pollWaits = 0,
                         !.acquisition = "pending", !.reported = <<>>,
                         !.answer = -1, !.fetches = 1]

\* after `await apiClient.reportFailure(...)`: the loop goes on with the next
\* credential, or the scraper throws (part_000:1003-1023, techfetch.js:644-657,
\* part_000:1612)
AfterReportFailure(s, h) ==
    IF HasCredentialLoop(s.platform) /\ s.attemptCount < maxAttempts
    THEN BeginAttempt(s, h)
    ELSE /\ EndScrape(s, "throw", IF HasCredentialLoop(s.platform) THEN s.lastError ELSE s.error)
         /\ hist' = h

\* runBlacklightQueue reaches a platform and calls its scraper:
\* `scraper(role.name, location, session_id)` (server.js:124-142)
StartScraper(platformInfo) ==
    LET platformName == toLowerCase(platformInfo.name)
        s == [IdleScrape EXCEPT !.platform = platformName,
                                !.requires_credential = platformInfo.requires_credential] IN
    IF platformName \in CredentialScrapers
    THEN BeginAttempt(s, NoHist)
    ELSE /\ scrape' = [s EXCEPT !.pc = "scraping"]
         /\ hist' = [NoHist EXCEPT !.attempts = 1]

\* the scraper of any platform is called, one call after the other
StartPlatform ==
    /\ scrape.pc \in {"idle", "ended"}
    /\ \E platformInfo \in PlatformInfos : StartScraper(platformInfo)
    /\ UNCHANGED <<activeCredentials, callers, queueVars, apiVars>>

\* the fetch of getCredential settles (README.md:1290-1318) and the scraper goes on
\* (part_000:803-837, techfetch.js:547-583, part_000:1491-1531). The backend hands out
\* a credential that is not in use.
GetCredentialResponds ==
    /\ scrape.pc = "getCredential"
    /\ \E st \in CredentialNextOutcomes :
         LET p == scrape.platform
             h == [hist EXCEPT !.answer = st] IN
         \E id \in IF IsOk(st) /\ st # 204 THEN CredentialIds \ {activeCredentials[p]} ELSE {0} :
           LET got == getCredential(activeCredentials, p, st, id) IN
           /\ activeCredentials' = got.leases
           /\ IF got.result = "throw"
              THEN /\ EndScrape(scrape, "throw", got.error)
                   /\ hist' = [h EXCEPT !.acquisition = "error"]
              ELSE IF got.result = "credential"
              THEN /\ scrape' = [scrape EXCEPT !.pc = "scraping"]
                   /\ hist' = [h EXCEPT !.acquisition = "credential", !.attempts = @ + 1]
              ELSE IF HasCredentialLoop(p) /\ scrape.credRetry < maxCredentialRetries - 1
              THEN /\ scrape' = [scrape EXCEPT !.pc = "pollWait", !.delay = credentialRetryDelay]
                   /\ hist' = h
              ELSE /\ EndScrape([scrape EXCEPT !.credRetry = IF HasCredentialLoop(p) THEN @ + 1 ELSE @],
                                "throw",
                                IF HasCredentialLoop(p) /\ scrape.lastError # NoMessage
                                THEN scrape.lastError ELSE NoCredentialsError)
                   /\ hist' = [h EXCEPT !.acquisition = "gave up"]
    /\ UNCHANGED <<callers, queueVars, apiVars>>

\* the setTimeout of credentialRetryDelay fires: credRetry++ and the next poll
\* (part_000:802-813, techfetch.js:546-557)
PollWaitElapses ==
    /\ scrape.pc = "pollWait"
    /\ scrape' = [scrape EXCEPT !.pc = "getCredential", !.credRetry = @ + 1, !.delay = 0]
    /\ hist' = [hist EXCEPT !.polls = @ + 1, !.pollWaits = @ + 1, !.answer = -1, !.fetches = 1]
    /\ UNCHANGED <<activeCredentials, callers, queueVars, apiVars>>

\* the scrape attempt succeeds: loginSuccess = true and reportSuccess sends its fetch
\* when the map has an entry (part_000:967-968, techfetch.js:586-615, part_000:1591,
\* README.md:1326-1349); dice and monster return their jobs
ScrapeSucceeds ==
    /\ scrape.pc = "scraping"
    /\ LET p == scrape.platform IN
       IF p \notin CredentialScrapers
       THEN EndScrape(scrape, "jobs", NoMessage) /\ UNCHANGED hist
       ELSE IF activeCredentials[p] = 0
       THEN /\ EndScrape([scrape EXCEPT !.loginSuccess = TRUE, !.authenticated = TRUE], "jobs", NoMessage)
            /\ hist' = [hist EXCEPT !.successes = @ + 1]
       ELSE /\ scrape' = [scrape EXCEPT !.pc = "reportSuccess", !.loginSuccess = TRUE,
                                        !.authenticated = TRUE]
            /\ hist' = [hist EXCEPT !.endpoints = @ \cup {"success"}, !.answer = -1, !.fetches = 1,
                                    !.successes = @ + 1]
    /\ UNCHANGED <<activeCredentials, callers, queueVars, apiVars>>

\* the scraper taking a failed success report for a failed attempt: it goes on
\* with the next credential instead of returning its jobs
ReportSuccessRespondsRetry ==
    /\ scrape.pc = "reportSuccess"
    /\ \E st \in CredentialReportOutcomes :
         /\ activeCredentials' = reportSuccess(activeCredentials, scrape.platform, st)
         /\ IF st # 0 /\ IsOk(st)
            THEN /\ EndScrape(scrape, "jobs", NoMessage)
                 /\ hist' = [hist EXCEPT !.answer = st]
            ELSE AfterReportFailure(scrape, [hist EXCEPT !.answer = st])
    /\ UNCHANGED <<callers, queueVars, apiVars>>

\* the fetch of reportSuccess settles and the scraper returns its jobs
\* (README.md:1349-1364, part_000:970, techfetch.js:618, part_000:1595)
ReportSuccessResponds ==
    /\ scrape.pc = "reportSuccess"
    /\ \E st \in CredentialReportOutcomes :
         /\ activeCredentials' = reportSuccess(activeCredentials, scrape.platform, st)
         /\ EndScrape(scrape, "jobs", NoMessage)
         /\ hist' = [hist EXCEPT !.answer = st]
    /\ UNCHANGED <<callers, queueVars, apiVars>>

\* the scrape attempt throws: the catch block picks the cooldown and calls
\* reportFailure (part_000:972-1002, techfetch.js:620-651, part_000:1597-1612);
\* scrapeGlassdoor reports nothing for a failure before its try block or after
\* loginSuccess; dice and monster just throw
ScrapeFails ==
    /\ scrape.pc = "scraping"
    /\ \E message \in Messages :
         LET p == scrape.platform IN
         \E phase \in FailurePhases(p) :
           LET loginSuccess == (phase = "after")
               s == [scrape EXCEPT !.error = message, !.loginSuccess = loginSuccess,
                                   !.authenticated = (phase \in {"extract", "after"}),
                                   !.lastError = IF HasCredentialLoop(p) THEN message ELSE @]
               h == [hist EXCEPT !.reported = Append(@, Cooldown(p, message, loginSuccess))] IN
           IF p \notin CredentialScrapers \/ phase = "setup" \/ (p = "glassdoor" /\ loginSuccess)
           THEN EndScrape(s, "throw", message) /\ UNCHANGED hist
           ELSE IF activeCredentials[p] = 0
           THEN AfterReportFailure(s, h)
           ELSE /\ scrape' = [s EXCEPT !.pc = "reportFailure"]
                /\ hist' = [h EXCEPT !.endpoints = @ \cup {"failure"}, !.answer = -1, !.fetches = 1]
    /\ UNCHANGED <<activeCredentials, callers, queueVars, apiVars>>

\* the fetch of reportFailure settles (README.md:1402-1418) and the scraper goes on
ReportFailureResponds ==
    /\ scrape.pc = "reportFailure"
    /\ \E st \in CredentialReportOutcomes :
         /\ activeCredentials' = reportFailure(activeCredentials, scrape.platform, st)
         /\ AfterReportFailure(scrape, [hist EXCEPT !.answer = st])
    /\ UNCHANGED <<callers, queueVars, apiVars>>

\* the scrapers on their own: one platform after the other, as the loop of
\* runBlacklightQueue calls them; the client is the singleton of credentialsAPI.js
InitCred ==
    /\ api = ApiIdle
    /\ activeCredentials = NoLeases
    /\ scrape = IdleScrape
    /\ hist = NoHist
    /\ callers = NoCallers
    /\ configured = TRUE
    /\ serverState = "init"
    /\ isProcessingQueue = FALSE
    /\ queueCheckInterval = FALSE
    /\ startupTimer = FALSE
    /\ console = "none"
    /\ runs = [r \in RunIds |-> IdleRun]
    /\ backendSession = FALSE
    /\ ended = NoEnded

NextCred ==
    \/ StartPlatform
    \/ GetCredentialResponds
    \/ PollWaitElapses
    \/ ScrapeSucceeds
    \/ ScrapeFails
    \/ ReportSuccessResponds
    \/ ReportFailureResponds

SpecCred == InitCred /\ [][NextCred]_vars

(* ------------- properties of the credential client and scrapers -------- *)
\* C11: while a platform whose requires_credential flag is false is processed, no
\* credential endpoint (next, success, failure, release) is called, whichever of the
\* names dice, monster, techfetch, linkedin, glassdoor the platform carries.
C11_NoCredentialCallWithoutFlag ==
    (scrape.pc # "idle" /\ ~scrape.requires_credential) => hist.endpoints = {}

\* C12: a lease held in activeCredentials for a platform is never replaced by
\* another one: the entry of a platform only changes from or to "no entry".
C12_HeldLeaseNeverReplaced ==
    [][\A p \in CredentialScrapers :
         activeCredentials[p] # 0 => activeCredentials'[p] \in {0, activeCredentials[p]}]_vars

\* C13: when reportSuccess or reportFailure returns, activeCredentials has no entry
\* for the platform, whatever the backend answered (OK, non-OK, network error).
C13_ReportClearsLease ==
    [][scrape.pc \in {"reportSuccess", "reportFailure"}
         => activeCredentials'[scrape.platform] = 0]_vars

\* C17: a call of a credential endpoint that settled on a 429, a status >= 500 or a
\* network exception has made the 5 attempts of the retry schedule.
C17_CredentialCallsAreRetried ==
    (hist.answer = 0 \/ hist.answer = 429 \/ hist.answer >= 500) => hist.fetches = 5

\* the step in which a failed scrape attempt is over
AttemptOver ==
    \/ scrape.pc = "reportFailure" /\ scrape'.pc # "reportFailure"
    \/ scrape.pc = "scraping" /\ scrape'.pc = "ended" /\ scrape'.result = "throw"

\* C18: a credentialed scrape (linkedin, techfetch, glassdoor) makes at most 3 scrape
\* attempts; after a failed attempt that is not the third it acquires the next
\* credential, and after the third it fails with the error of that last attempt.
C18_UpToThreeCredentials ==
    [][/\ hist'.attempts <= 3
       /\ (scrape.platform \in CredentialScrapers /\ AttemptOver)
            => IF hist.attempts < 3
               THEN scrape'.pc = "getCredential" /\ scrape'.attemptCount = scrape.attemptCount + 1
               ELSE scrape'.pc = "ended" /\ scrape'.result = "throw"
                    /\ scrape'.thrown = scrape'.error]_vars

\* C19: one acquisition polls the next-credential endpoint at most 10 times, with a
\* wait of 60 s between two polls; it stops polling at the first credential and gives
\* up only after 10 polls answered 204.
C19_AcquisitionPolls ==
    scrape.platform \in CredentialScrapers
    => /\ hist.polls <= 10
       /\ hist.pollWaits = hist.polls - 1
       /\ scrape.pc = "pollWait" => scrape.delay = 60000
       /\ hist.acquisition = "credential" => scrape.pc \notin {"getCredential", "pollWait"}
       /\ hist.acquisition = "gave up" => hist.polls = 10

\* the message is one of a rate limit, a security challenge or a block
RateLimited(message) ==
    \/ includes(message, <<"rate", "limit">>)
    \/ includes(message, <<"challenge">>)
    \/ includes(message, <<"blocked">>)

\* C20: for a scrape attempt that failed before loginSuccess was set, reportFailure is
\* called exactly once, with a cooldown of 0 or 60: 60 when the message contains
\* 'rate limit', 0 when it is neither a rate limit nor a challenge nor a block.
C20_CooldownByMessage ==
    (scrape.platform \in CredentialScrapers /\ scrape.error # NoMessage /\ ~scrape.loginSuccess)
    => /\ Len(hist.reported) = 1
       /\ hist.reported[1] \in {0, 60}
       /\ includes(scrape.error, <<"rate", "limit">>) => hist.reported[1] = 60
       /\ ~RateLimited(scrape.error) => hist.reported[1] = 0


(* ------------- failures after authentication, success reports ---------- *)
\* C21: an attempt of scrapeLinkedIn or scrapeTechFetch that fails after the site
\* accepted the login (during search or extraction) is reported with
\* reportFailure(cooldownMinutes = 30), never with 0 and never left unreported
C21_FailureAfterLoginCoolsDown30 ==
    (HasCredentialLoop(scrape.platform) /\ scrape.pc = "reportFailure" /\ scrape.authenticated)
        => hist.reported = <<30>>


\* the attempt of a credentialed scraper succeeded: reportSuccess is being sent, or
\* the scraper has returned its jobs
Succeeded(s) ==
    /\ s.platform \in CredentialScrapers
    /\ s.pc = "reportSuccess" \/ (s.pc = "ended" /\ s.result = "jobs")

\* C22: when the attempt of a credentialed scraper succeeds, reportSuccess is called
\* exactly once for the platform, the scraper returns its job list whatever the
\* report answers, and no further credential is acquired and no further attempt is
\* made by that scraper call
C22_SuccessReportedOnceAndLoopStops ==
    [][/\ Succeeded(scrape') => hist'.successes = 1
       /\ (scrape.platform \in CredentialScrapers /\ scrape.pc = "reportSuccess")
             => /\ scrape'.pc = "ended" /\ scrape'.result = "jobs"
                /\ scrape'.attemptCount = scrape.attemptCount
                /\ hist'.attempts = hist.attempts /\ hist'.polls = hist.polls
                /\ hist'.endpoints = hist.endpoints
       /\ (Succeeded(scrape) /\ scrape.pc = "ended")
             => scrape'.attemptCount <= 1 /\ hist'.successes = 0]_vars

\* the second credential of linkedin succeeded after the first one failed, the
\* success report was refused by the backend and the scraper returned its jobs
C22_Witness ==
    /\ scrape.platform = "linkedin" /\ scrape.pc = "ended" /\ scrape.result = "jobs"
    /\ scrape.attemptCount = 2 /\ hist.attempts = 2
    /\ hist.successes = 1 /\ "success" \in hist.endpoints
    /\ hist.answer = 500


(* ------------- the end of a session, shutdown, submits per platform ---- *)
\* C24: no run that fetched a queue item ends, by return or by exception, without a
\* complete call answered OK or a fail call for its session
C24_SessionTerminatedAtBackend ==
    (HasEnded /\ Fetched(ended.rec)) =>
        \/ \E p \in Answers(ended.rec, "complete") : IsOk(ended.rec.log[p].st)
        \/ Calls(ended.rec, "fail") # {}

\* C25: when the complete call fails (it throws or answers a non-OK status) the run
\* does not throw: it returns the session result with completion_error set and with
\* the per-platform outcomes and the summary it had before the call
C25_CompleteFailureIsRecordedNotThrown ==
    [][\A r \in RunIds :
         (runs[r].pc = "complete" /\ ended'.id = r) =>
            /\ ended'.kind = "session"
            /\ ended'.rec.platforms = runs[r].platforms
            /\ ended'.rec.successful = runs[r].successful
            /\ ended'.rec.failed = runs[r].failed
            /\ ended'.rec.item = runs[r].item
            /\ ~IsOk(ended'.status) => ended'.rec.completion = "completion_error"]_vars

\* a run that recorded a platform outcome returned its result after complete threw
C25_Witness ==
    /\ ended.kind = "session" /\ ended.status = 0
    /\ ended.rec.completion = "completion_error"
    /\ \E n \in LowerNames : ended.rec.platforms[n].recorded

\* C26: a shutdown request does not interrupt a run in flight: the run keeps its
\* place and its locals across the SIGINT / SIGTERM handler
C26_ShutdownLeavesRunInFlight ==
    [][\A r \in RunIds :
         (runs[r].pc # "idle" /\ serverState = "listening" /\ serverState' = "exited")
            => runs'[r] = runs[r]]_vars

\* C29: in a run that fetched a queue item and went through all of its platforms,
\* submit-jobs was called exactly once for each platform of the item
C29_OneSubmitPerPlatform ==
    (ended.kind = "session" /\ Fetched(ended.rec)) =>
        \A j \in 1..Len(ended.rec.item) :
            Cardinality({p \in Calls(ended.rec, "submit") : ended.rec.log[p].i = j}) = 1


(* ------------- the terminal error of makeApiRequest -------------------- *)
\* what the error thrown by makeApiRequest holds for its caller: `new Error('Max
\* retries exceeded')` has a message only (utils.js:266); the error of the last
\* fetch is rethrown as it came, with its message and its cause, its URL and
\* code being written to the console only (utils.js:245-257)
ErrorCarries(error) ==
    CASE error = "Max retries exceeded" -> {"message"}
      [] error = "network" -> {"message", "cause"}
      [] OTHER -> {}

\* C30: the error makeApiRequest throws after its last attempt carries the status,
\* the cause and the URL of the failing call, for 429/5xx answers and for network
\* exceptions alike
C30_TerminalErrorCarriesDiagnostics ==
    api.pc = "threw" => {"status", "cause", "url"} \subseteq ErrorCarries(api.error)


(* ------------- two callers of the scrapers, one lease map -------------- *)
\* The scraper functions are called by runBlacklightQueue (server.js:142) and by
\* scrapeJobs for POST /scrape (server.js:250, 389); neither caller tests whether the
\* other one is running, and all calls use the one client of credentialsAPI.js.
\* A call is followed here through its awaits on the client only, and the polls of
\* one acquisition are not counted: a poll answered 204 leaves the map alone, and
\* the acquisition may give up after any of them as it does after the tenth.

\* credentials the backend may hand out to caller c for platform p: those it has
\* not leased to a scraper call that is still running
Leasable(c, p) ==
    CredentialIds \ ({activeCredentials[p]} \cup
                     {callers[d].credential : d \in {e \in Callers \ {c} :
                          callers[e].platform = p /\ callers[e].pc # "idle"}})

\* the head of one pass of the attempt loop: getCredential sends its fetch
\* (part_000:792-803, techfetch.js:536-547, part_000:1490-1491)
CallerBeginAttempt(cs) ==
    [cs EXCEPT !.pc = "getCredential", !.attemptCount = @ + 1, !.credential = 0]

\* the scraper call is over (it returned or threw): its locals are gone
CallerEnd(cs) == IdleCaller

\* after reportFailure: the next credential, or the scraper throws
\* (part_000:1003-1023, techfetch.js:644-657, part_000:1612)
CallerAfterReportFailure(cs) ==
    IF HasCredentialLoop(cs.platform) /\ cs.attemptCount < maxAttempts
    THEN CallerBeginAttempt(cs)
    ELSE CallerEnd(cs)

\* a caller reaches a platform and calls its scraper (server.js:142, 250)
CallScraper(c) ==
    /\ callers[c].pc = "idle"
    /\ \E p \in SCRAPERS :
         callers' = [callers EXCEPT ![c] =
                        IF p \in CredentialScrapers
                        THEN CallerBeginAttempt([IdleCaller EXCEPT !.platform = p])
                        ELSE [IdleCaller EXCEPT !.platform = p, !.pc = "scraping"]]
    /\ UNCHANGED <<activeCredentials, scrape, hist, queueVars, apiVars>>

\* the fetch of getCredential settles (README.md:1290-1318): on a credential the
\* entry of the platform is written, whoever holds it; without one the scraper
\* waits for its next poll or gives up (part_000:803-837, techfetch.js:547-583,
\* part_000:1491-1531)
CallerGetCredentialResponds(c) ==
    /\ callers[c].pc = "getCredential"
    /\ \E st \in CredentialNextOutcomes :
         LET cs == callers[c]
             p == cs.platform IN
         \E id \in IF IsOk(st) /\ st # 204 THEN Leasable(c, p) ELSE {0} :
           LET got == getCredential(activeCredentials, p, st, id) IN
           /\ activeCredentials' = got.leases
           /\ IF got.result = "throw"
              THEN callers' = [callers EXCEPT ![c] = CallerEnd(cs)]
              ELSE IF got.result = "credential"
              THEN callers' = [callers EXCEPT ![c] =
                                  [cs EXCEPT !.pc = "scraping", !.credential = id, !.accessed = TRUE]]
              ELSE \/ /\ HasCredentialLoop(p)
                      /\ callers' = [callers EXCEPT ![c] = [cs EXCEPT !.pc = "pollWait"]]
                   \/ callers' = [callers EXCEPT ![c] = CallerEnd(cs)]
    /\ UNCHANGED <<scrape, hist, queueVars, apiVars>>

\* the wait of credentialRetryDelay is over (part_000:802-813, techfetch.js:546-557)
CallerPollWaitElapses(c) ==
    /\ callers[c].pc = "pollWait"
    /\ callers' = [callers EXCEPT ![c] = [@ EXCEPT !.pc = "getCredential"]]
    /\ UNCHANGED <<activeCredentials, scrape, hist, queueVars, apiVars>>

\* the attempt succeeds: reportSuccess reads the entry of the platform and sends its
\* fetch for the id it finds there (part_000:968, techfetch.js:615, part_000:1591,
\* README.md:1326-1349)
CallerScrapeSucceeds(c) ==
    /\ callers[c].pc = "scraping"
    /\ LET cs == callers[c]
           p == cs.platform IN
       callers' = [callers EXCEPT ![c] =
           IF p \notin CredentialScrapers THEN CallerEnd(cs)
           ELSE IF activeCredentials[p] = 0 THEN CallerEnd([cs EXCEPT !.accessed = TRUE])
           ELSE [cs EXCEPT !.pc = "reportSuccess", !.accessed = TRUE]]
    /\ UNCHANGED <<activeCredentials, scrape, hist, queueVars, apiVars>>

\* the fetch of reportSuccess settles: on an OK answer the entry of the platform is
\* deleted (README.md:1349-1364), and the scraper returns
CallerReportSuccessResponds(c) ==
    /\ callers[c].pc = "reportSuccess"
    /\ \E st \in CredentialReportOutcomes :
         activeCredentials' = reportSuccess(activeCredentials, callers[c].platform, st)
    /\ callers' = [callers EXCEPT ![c] = CallerEnd(@)]
    /\ UNCHANGED <<scrape, hist, queueVars, apiVars>>

\* the attempt throws: reportFailure reads the entry of the platform and sends its
\* fetch for the id it finds there (part_000:972-1002, techfetch.js:620-651,
\* part_000:1597-1612, README.md:1372-1402)
CallerScrapeFails(c) ==
    /\ callers[c].pc = "scraping"
    /\ LET cs == callers[c]
           p == cs.platform IN
       \E phase \in FailurePhases(p) :
         callers' = [callers EXCEPT ![c] =
             IF p \notin CredentialScrapers \/ phase = "setup" \/ (p = "glassdoor" /\ phase = "after")
             THEN CallerEnd(cs)
             ELSE IF activeCredentials[p] = 0
             THEN CallerAfterReportFailure([cs EXCEPT !.accessed = TRUE])
             ELSE [cs EXCEPT !.pc = "reportFailure", !.accessed = TRUE]]
    /\ UNCHANGED <<activeCredentials, scrape, hist, queueVars, apiVars>>

\* the fetch of reportFailure settles: on an OK answer the entry of the platform is
\* deleted (README.md:1402-1418), and the scraper goes on
CallerReportFailureResponds(c) ==
    /\ callers[c].pc = "reportFailure"
    /\ \E st \in CredentialReportOutcomes :
         activeCredentials' = reportFailure(activeCredentials, callers[c].platform, st)
    /\ callers' = [callers EXCEPT ![c] = CallerAfterReportFailure(@)]
    /\ UNCHANGED <<scrape, hist, queueVars, apiVars>>

InitShared ==
    /\ api = ApiIdle
    /\ activeCredentials = NoLeases
    /\ scrape = IdleScrape
    /\ hist = NoHist
    /\ callers = NoCallers
    /\ configured = TRUE
    /\ serverState = "listening"
    /\ isProcessingQueue = FALSE
    /\ queueCheckInterval = FALSE
    /\ startupTimer = FALSE
    /\ console = "none"
    /\ runs = [r \in RunIds |-> IdleRun]
    /\ backendSession = FALSE
    /\ ended = NoEnded

CallerStep(c) ==
    \/ CallScraper(c)
    \/ CallerGetCredentialResponds(c)
    \/ CallerPollWaitElapses(c)
    \/ CallerScrapeSucceeds(c)
    \/ CallerScrapeFails(c)
    \/ CallerReportSuccessResponds(c)
    \/ CallerReportFailureResponds(c)

NextShared == \E c \in Callers : CallerStep(c)

SpecShared == InitShared /\ [][NextShared]_vars

\* the scraper call of caller c is running
Running(c) == callers[c].pc # "idle"

\* C27: no two scraper calls of the same platform that run at the same time have
\* both read or written the lease entry of that platform
C27_LeaseEntryHasOneUser ==
    \A c \in Callers : \A d \in Callers \ {c} :
        (Running(c) /\ Running(d) /\ callers[c].platform = callers[d].platform)
            => ~(callers[c].accessed /\ callers[d].accessed)


(* ------------- one run with its scrapers ------------------------------- *)
\* The run of autoCheckQueue together with the scraper it calls for each platform
\* and the credential client: runBlacklightQueue (server.js:62-213) awaits
\* `scraper(...)` (server.js:142), which goes through its own awaits.

\* names of a queue item here: one platform without credentials in two spellings
\* and one with credentials
RunNames == {"Dice", "dice", "linkedin"}
RunPlatforms == {[name |-> n, requires_credential |-> (toLowerCase(n) \in CredentialScrapers)] : n \in RunNames}
\* the platform lists the backend may answer: one of these platforms, or one
\* followed by another
RunItems == {<<p>> : p \in RunPlatforms} \cup {<<p, q>> : p, q \in RunPlatforms}

\* the next-role-location response of the run arrives (server.js:92-142)
RunFetches == GetNextRoleLocationRespondsWith(0, RunItems)

\* `await scraper(role.name, location, session_id)` is reached for the current
\* platform (server.js:142): the scraper starts
RunCallsScraper ==
    /\ serverState = "listening"
    /\ runs[0].pc = "scrape"
    /\ scrape.pc = "idle"
    /\ StartScraper(runs[0].item[runs[0].idx])
    /\ UNCHANGED <<activeCredentials, callers, queueVars, apiVars>>

\* the message is one of those the catch block of scrapeLinkedIn takes for wrong
\* credentials (part_000:981)
CredentialInvalid(message) ==
    \/ includes(message, <<"Login", "failed">>)
    \/ includes(message, <<"credentials">>)
    \/ includes(message, <<"waitForSelector">>)

\* what the log keeps of a scraper call that used credentials: the number of its
\* attempts and the kind of the last error of a failed attempt
ScraperSummary(rec, s) ==
    IF s.platform \in CredentialScrapers
    THEN Append(rec.log, Ev("credential", "end", rec.idx, s.platform,
                            IF s.lastError = NoMessage THEN "no failure"
                            ELSE IF CredentialInvalid(s.lastError) THEN "credential-invalid"
                            ELSE "other failure",
                            s.attemptCount))
    ELSE rec.log

\* the scraper call settles and the run goes on with its submit
\* (server.js:142-156, 168-173); the locals of the scraper are gone
ScraperSettles ==
    /\ serverState = "listening"
    /\ runs[0].pc = "scrape"
    /\ scrape.pc = "ended"
    /\ LET rec == runs[0]
           i == rec.idx
           platformName == toLowerCase(rec.item[i].name) IN
       IF scrape.result = "jobs"
       THEN \E n \in 0..MaxJobs :
              Continue(0, [rec EXCEPT !.pc = "submit_success", !.jobs = n,
                                      !.log = Append2(ScraperSummary(rec, scrape),
                                                      Ev("scrape", "end", i, platformName, "ok", 0),
                                                      Ev("submit", "start", i, platformName, "success", 0))])
       ELSE Continue(0, [rec EXCEPT !.pc = "submit_failed", !.err = "scrape",
                                    !.log = Append2(ScraperSummary(rec, scrape),
                                                    Ev("scrape", "end", i, platformName, "throw", 0),
                                                    Ev("submit", "start", i, platformName, "failed", 0))])
    /\ scrape' = IdleScrape
    /\ hist' = NoHist
    /\ UNCHANGED <<activeCredentials, callers, apiVars, configured, serverState,
                   queueCheckInterval, startupTimer, backendSession>>

InitRun ==
    /\ api = ApiIdle
    /\ activeCredentials = NoLeases
    /\ scrape = IdleScrape
    /\ hist = NoHist
    /\ callers = NoCallers
    /\ configured = TRUE
    /\ serverState = "listening"
    /\ isProcessingQueue = FALSE
    /\ queueCheckInterval = TRUE
    /\ startupTimer = FALSE
    /\ console = "none"
    /\ runs = [r \in RunIds |-> IdleRun]
    /\ backendSession = FALSE
    /\ ended = NoEnded

NextRun ==
    \/ IntervalTick
    \/ CheckActiveSessionResponds(0)
    \/ RunFetches
    \/ RunCallsScraper
    \/ GetCredentialResponds
    \/ PollWaitElapses
    \/ ScrapeSucceeds
    \/ ScrapeFails
    \/ ReportSuccessResponds
    \/ ReportFailureResponds
    \/ ScraperSettles
    \/ SubmitSuccessResponds(0)
    \/ SubmitFailedResponds(0)
    \/ CompleteResponds(0)

SpecRun == InitRun /\ [][NextRun]_vars


\* the record of the run after a step: its locals, or what it returned or threw with
RunAfter == IF runs'[0].pc = "idle" THEN ended'.rec ELSE runs'[0]

\* C28: the outcome recorded for a platform in the session result is never changed
\* by a later step of the run, whatever the later platforms of the item are called
C28_RecordedOutcomeNeverChanges ==
    [][\A n \in LowerNames :
         (runs[0].pc # "idle" /\ runs[0].platforms[n].recorded)
            => RunAfter.platforms[n] = runs[0].platforms[n]]_vars


\* the queue item lists a platform without credentials followed by one with credentials
FreeThenCredentialed(item) ==
    /\ Len(item) = 2
    /\ toLowerCase(item[1].name) \in SCRAPERS \ CredentialScrapers
    /\ toLowerCase(item[2].name) \in CredentialScrapers

\* the scraper of the second platform is running in such a run
SecondScraperRuns ==
    /\ FreeThenCredentialed(runs[0].item) /\ runs[0].pc = "scrape" /\ runs[0].idx = 2
    /\ scrape.platform = "linkedin"

\* the first credential failed at the login with a message for wrong credentials
\* and its failure is being reported
FirstCredentialFailedAtLogin ==
    /\ SecondScraperRuns /\ scrape.pc = "reportFailure" /\ scrape.attemptCount = 1
    /\ ~scrape.authenticated /\ CredentialInvalid(scrape.error)

\* the second credential succeeded after the first was taken for wrong
SecondCredentialSucceeded ==
    /\ SecondScraperRuns /\ Succeeded(scrape) /\ scrape.attemptCount = 2
    /\ CredentialInvalid(scrape.lastError)

\* the run ended after its credentialed platform needed exactly two credentials,
\* the first one failing as wrong
EndedAfterSecondCredential ==
    /\ HasEnded /\ FreeThenCredentialed(ended.rec.item)
    /\ \E p \in Answers(ended.rec, "credential") :
          /\ ended.rec.log[p].i = 2 /\ ended.rec.log[p].st = 2
          /\ ended.rec.log[p].res = "credential-invalid"
    /\ \E p \in Answers(ended.rec, "scrape") :
          ended.rec.log[p].i = 2 /\ ended.rec.log[p].res = "ok"

\* both platforms were submitted with status success and recorded successful, and
\* complete was called exactly once
BothSuccessfulAndCompletedOnce(rec) ==
    /\ \A j \in 1..2 : \E p \in Calls(rec, "submit") : rec.log[p].i = j /\ rec.log[p].res = "success"
    /\ \A j \in 1..2 : LET o == rec.platforms[toLowerCase(rec.item[j].name)] IN o.recorded /\ o.success
    /\ rec.successful = 2 /\ rec.failed = 0
    /\ Cardinality(Calls(rec, "complete")) = 1

\* the reports of the two credentials: one failure report with cooldown 0 for the
\* first, one success report and no failure report for the second
ReportsOfTwoCredentials ==
    /\ FirstCredentialFailedAtLogin => hist.reported = <<0>>
    /\ SecondCredentialSucceeded => (hist.successes = 1 /\ hist.reported = <<>>)

\* C23 as stated: in a run over a credential-free platform followed by a
\* credentialed one whose first credential fails at login as wrong and whose second
\* succeeds, the first credential gets one failure report with cooldown 0, the
\* second one success report, both platforms are submitted as success and recorded
\* successful, and complete is called exactly once
C23_TwoCredentialRun ==
    /\ ReportsOfTwoCredentials
    /\ EndedAfterSecondCredential => BothSuccessfulAndCompletedOnce(ended.rec)

\* the scrape of the credential-free platform succeeded and every submit call of
\* the run was answered OK
FirstScrapedAndSubmitsAccepted(rec) ==
    /\ \E p \in Answers(rec, "scrape") : rec.log[p].i = 1 /\ rec.log[p].res = "ok"
    /\ \A p \in Answers(rec, "submit") : IsOk(rec.log[p].st)

\* C23 amended: the same, for the runs in which the scrape of the credential-free
\* platform succeeds and the backend accepts every submit
C23_TwoCredentialRunAccepted ==
    /\ ReportsOfTwoCredentials
    /\ (EndedAfterSecondCredential /\ FirstScrapedAndSubmitsAccepted(ended.rec))
          => BothSuccessfulAndCompletedOnce(ended.rec)

\* such a run has ended: Dice then linkedin, two credentials, all accepted
C23_Witness ==
    /\ EndedAfterSecondCredential /\ FirstScrapedAndSubmitsAccepted(ended.rec)
    /\ ended.rec.item[1].name = "Dice" /\ ended.rec.item[2].name = "linkedin"
    /\ ended.kind = "session"


(* ------------- outcomes of a platform, scheduler, HTTP answers --------- *)
\* the submit calls made for list position i
SubmitsOf(rec, i) == {p \in Calls(rec, "submit") : rec.log[p].i = i}

\* every scrape failure of the run was submitted once, as failed, and is recorded
\* with the error of the scrape, or is being submitted right now
ScrapeFailureSubmittedAndRecorded(rec, inflight) ==
    \A i \in ScrapeFailedAt(rec) :
        /\ Cardinality(SubmitsOf(rec, i)) = 1
        /\ \A p \in SubmitsOf(rec, i) : rec.log[p].res = "failed"
        /\ IF rec.pc = "submit_failed" /\ rec.idx = i
           THEN inflight /\ rec.err = "scrape"
           ELSE rec.platforms[toLowerCase(rec.item[i].name)] =
                    [recorded |-> TRUE, success |-> FALSE, jobs_found |-> 0, error |-> "scrape"]

\* C31: when the scrape of a platform throws, the run calls submitJobs once for the
\* platform, with status failed and the error of the scrape, records the platform
\* as {success: false, error: that message}, and never ends with that error
C31_ScrapeFailureSubmittedAsFailed ==
    /\ \A r \in RunIds : ScrapeFailureSubmittedAndRecorded(runs[r], TRUE)
    /\ ScrapeFailureSubmittedAndRecorded(ended.rec, FALSE)

\* a run returned its result after a scrape threw and the failed-submit itself failed
C31_Witness ==
    /\ ended.kind = "session"
    /\ \E i \in ScrapeFailedAt(ended.rec) :
          /\ \E p \in Answers(ended.rec, "submit") : ended.rec.log[p].i = i /\ ended.rec.log[p].st = 0
          /\ ~ended.rec.platforms[toLowerCase(ended.rec.item[i].name)].success


\* in the log of rec every scrape that returned is followed at once by a submit
\* call with status success for the same list position, and every platform
\* recorded successful had such a submit answered OK
SuccessSubmittedAndAccepted(rec) ==
    /\ \A q \in Answers(rec, "scrape") :
          rec.log[q].res = "ok" =>
             /\ q + 1 \in SubmitsOf(rec, rec.log[q].i)
             /\ rec.log[q + 1].res = "success"
    /\ \A j \in 1..Len(rec.item) :
          rec.platforms[toLowerCase(rec.item[j].name)].success =>
             \E p \in SubmitsOf(rec, j) :
                /\ rec.log[p].res = "success"
                /\ p + 1 \in Answers(rec, "submit") /\ IsOk(rec.log[p + 1].st)

\* C32: a scrape that succeeds is followed by a submit with status success; when the
\* backend accepts it the platform is recorded successful with jobs_found equal to
\* the number of scraped jobs, when it does not the platform is not recorded
\* successful: a platform is recorded successful only after an accepted success submit
C32_SuccessRecordedAfterAcceptedSubmit ==
    [][\A r \in RunIds :
         /\ SuccessSubmittedAndAccepted(runs'[r])
         /\ SuccessSubmittedAndAccepted(ended'.rec)
         /\ (runs[r].pc = "submit_success" /\ runs'[r].pc # "idle" /\ runs'[r] # runs[r]) =>
               LET platformName == toLowerCase(runs[r].item[runs[r].idx].name) IN
               IF runs'[r].pc = "submit_failed"
               THEN runs'[r].platforms = runs[r].platforms /\ runs'[r].successful = runs[r].successful
               ELSE /\ runs'[r].platforms[platformName] =
                          [recorded |-> TRUE, success |-> TRUE, jobs_found |-> runs[r].jobs, error |-> "none"]
                    /\ runs'[r].successful = runs[r].successful + 1]_vars

\* a run returned with one platform recorded successful with its scraped job and
\* another one recorded failed because its success submit was refused
C32_Witness ==
    /\ ended.kind = "session"
    /\ \E n \in LowerNames : ended.rec.platforms[n].success /\ ended.rec.platforms[n].jobs_found = MaxJobs
    /\ \E n \in LowerNames : ended.rec.platforms[n].recorded /\ ended.rec.platforms[n].error = "submit"


\* stopAutoQueueChecker has run: the scheduler was started and its interval is cleared
SchedulerStopped == configured /\ serverState # "init" /\ ~queueCheckInterval

\* C33: once stopAutoQueueChecker has run, autoCheckQueue is not called again and no
\* run of the scheduler starts, also when the 5 s startup timeout was still pending
\* at the stop
C33_NoTriggerAfterStop ==
    [][SchedulerStopped =>
          /\ console' \notin {"auto-checking", "skipping", "not configured"}
          /\ runs[0].pc = "idle" => runs'[0].pc = "idle"
          /\ ~isProcessingQueue => ~isProcessingQueue']_vars

\* the stop came within the first 5 s: the startup timeout had not fired
C33_Witness == SchedulerStopped /\ serverState = "exited" /\ startupTimer


\* next-role-location answered 409: the backend reports an active session
SawConflict(rec) == \E p \in Answers(rec, "next-role-location") : rec.log[p].st = 409

\* the HTTP status POST /scrape-queue is to answer with for a run that ended
ExpectedHttp(e) ==
    IF SawActiveSession(e.rec) \/ SawConflict(e.rec) THEN 409
    ELSE IF SawEmptyQueue(e.rec) \/ e.kind = "session" THEN 200
    ELSE 500

\* C34: POST /scrape-queue answers 409 whenever the backend reported an active
\* session, through current-session or through a 409 of next-role-location, 200 for
\* an empty queue and for a processed queue item, and 500 for the other failures only
C34_HttpStatusFollowsResult ==
    (HasEnded /\ ended.id \in PostIds) => ended.http = ExpectedHttp(ended)


(* ------------------- termination of makeApiRequest --------------------- *)
\* a pending fetch settles, by a response or by an exception, and the timer of a
\* wait fires (utils.js:224, 230, 238, 258)
SpecApiFair ==
    /\ SpecApi
    /\ WF_vars(FetchResponds \/ FetchThrows)
    /\ WF_vars(WaitElapses)

\* the call is between its first fetch and its end
ApiInCall == api.pc \in {"fetch", "wait"}
\* the call has returned a response or raised its terminal error
ApiEnded ==
    \/ api.pc = "returned" /\ api.result = api.outcomes[Len(api.outcomes)]
    \/ api.pc = "threw" /\ api.error \in {"network", "Max retries exceeded"}
\* the delays of the schedule
ScheduleDelays == {1000, 2000, 5000, 10000, 30000}
\* at most five fetches so far, and only delays of the schedule waited
ApiWithinSchedule ==
    /\ Len(api.outcomes) <= 5
    /\ api.pc = "fetch" => Len(api.outcomes) <= 4
    /\ \A i \in DOMAIN api.waits : api.waits[i] \in ScheduleDelays
    /\ api.pc = "wait" => api.delay \in ScheduleDelays
    /\ api.pc \in {"returned", "threw"} => ApiEnded

\* C35: whatever the outcomes of its fetches (429, >= 500, network exception, another
\* response), a call of makeApiRequest makes at most 5 fetches, waits only delays of
\* [1000, 2000, 5000, 10000, 30000], and ends, by returning a response or by raising
\* a terminal error.
C35_CallTerminatesWithinSchedule ==
    /\ []ApiWithinSchedule
    /\ ApiInCall ~> ApiEnded

\* a call that raised the terminal error after five mixed retried outcomes
C35_Witness ==
    /\ api.pc = "threw"
    /\ api.outcomes = <<429, 0, 500, 0, 503>>
    /\ api.waits = <<1000, 2000, 5000, 10000, 30000>>
    /\ api.error = "Max retries exceeded"


(* ------------- leases and dispositions at the end of a scraper --------- *)
\* the disposition calls (success, failure) made for the credential of the last attempt
Dispositions == Len(hist.reported) + hist.successes

\* C36: when a credentialed scraper (scrapeLinkedIn, scrapeTechFetch, scrapeGlassdoor)
\* returns or throws, activeCredentials holds no lease for its platform and the
\* credential it acquired has received exactly one disposition call
C36_NoLeaseAndOneDispositionAtEnd ==
    (scrape.pc = "ended" /\ scrape.platform \in CredentialScrapers /\ scrape.requires_credential)
    => /\ activeCredentials[scrape.platform] = 0
       /\ hist.acquisition = "credential" => Dispositions = 1


(* ------------- whose credential a report names ------------------------- *)
\* caller c sends a success or failure report in this step: reportSuccess and
\* reportFailure name the id found in the entry of the platform at that moment
SendsReport(c) ==
    callers[c].pc = "scraping" /\ callers'[c].pc \in {"reportSuccess", "reportFailure"}

\* C37: a success or failure report of a scrape names the credential id this scrape
\* acquired, under any interleaving of two scrapes of the same platform
C37_ReportNamesOwnCredential ==
    [][\A c \in Callers :
         SendsReport(c) => activeCredentials[callers[c].platform] = callers[c].credential]_vars


(* ------------- the guard after the end of an auto run ------------------ *)
\* the run started by autoCheckQueue ends in this step, by a result or by an exception
AutoRunEnds == runs[0].pc # "idle" /\ runs'[0].pc = "idle" /\ serverState' = "listening"

\* C38: when the run started by an autoCheckQueue invocation ends, whether it returned
\* a result or threw, isProcessingQueue is false again; the guard is never set while
\* no such run is in flight, so a trigger that fires afterwards starts a new run
C38_GuardClearedWhenAutoRunEnds ==
    [][/\ AutoRunEnds => (ended'.id = 0 /\ ~isProcessingQueue')
       /\ isProcessingQueue' => runs'[0].pc # "idle"
       /\ (configured /\ runs[0].pc = "idle" /\ (StartupTimeout \/ IntervalTick))
            => (isProcessingQueue' /\ runs'[0].pc = "check")]_vars

\* the auto run has just ended by an exception and the guard is clear
C38_Witness ==
    /\ ended.id = 0 /\ ended.kind = "exception"
    /\ ~isProcessingQueue
    /\ console = "auto queue check error"
    /\ queueCheckInterval


(* ------------- the summary of a session result ------------------------- *)
\* the platforms recorded with success = true in the result
RecordedSuccessful(rec) == {n \in LowerNames : rec.platforms[n].recorded /\ rec.platforms[n].success}

\* C39: in a full session result returned by runBlacklightQueue, summary.successful +
\* summary.failed equals summary.total_platforms, the length of the platform list of
\* the queue item, and the number of platforms recorded with success = true equals
\* summary.successful
C39_SummaryCountsMatchPlatforms ==
    ended.kind = "session"
    => /\ ended.rec.successful + ended.rec.failed = Len(ended.rec.item)
       /\ Cardinality(RecordedSuccessful(ended.rec)) = ended.rec.successful


(* ------------- a platform without a registered scraper ----------------- *)
\* the list positions reached by the run whose lower-cased name has no scraper
UnsupportedAt(rec) ==
    {i \in DOMAIN rec.item : toLowerCase(rec.item[i].name) \notin SCRAPERS /\ Attempted(rec, i)}

\* such a position has no scraper call and one submit, of status 'failed'; once that
\* submit is answered the platform is recorded as failed and the run is at the next
\* position, or at the complete call after the last one
UnsupportedHandled(rec, inflight) ==
    \A i \in UnsupportedAt(rec) :
        /\ \A p \in Calls(rec, "scrape") : rec.log[p].i # i
        /\ Cardinality(SubmitsOf(rec, i)) = 1
        /\ \A p \in SubmitsOf(rec, i) :
              rec.log[p].res = "failed" /\ rec.log[p].name = toLowerCase(rec.item[i].name)
        /\ \/ inflight /\ rec.pc = "submit_unsupported" /\ rec.idx = i
           \/ /\ rec.platforms[toLowerCase(rec.item[i].name)] =
                    [recorded |-> TRUE, success |-> FALSE, jobs_found |-> 0,
                     error |-> "Platform not supported"]
              /\ IF i < Len(rec.item) THEN Attempted(rec, i + 1) ELSE CompleteCalled(rec)

\* C40: for a platform of the queue item whose lower-cased name has no registered
\* scraper, the run calls no scraper, submits status 'failed' for it, records the
\* platform as failed and continues with the next platform
C40_UnsupportedPlatformIsSkipped ==
    /\ \A r \in RunIds : UnsupportedHandled(runs[r], TRUE)
    /\ UnsupportedHandled(ended.rec, FALSE)

====
